---- MODULE Spec2Model ----
(***************************************************************************)
(* GrabberX (src/main.py): a PySide6 window that drives yt-dlp on a        *)
(* Python thread.  The model has the observer-facing context (MainWindow,  *)
(* the Qt main thread and its queue of posted signal deliveries) and one   *)
(* background context per started job (YtDlpWorker.run, with the engine's  *)
(* progress hook called from inside ydl.download).                         *)
(*                                                                         *)
(* The worker QObject lives in the main thread; run() emits from a         *)
(* threading.Thread, so its signals reach the slots through the main       *)
(* thread's event queue (queued connection), while cancel() emits from the *)
(* main thread itself and its log slot runs at once (direct connection).   *)
(***************************************************************************)
EXTENDS Integers, Sequences, FiniteSets, TLC

\* ------------------------------------------------------------------ bounds
MaxJobs == 2       \* jobs started in one behaviour
MaxHooks == 2      \* progress-hook invocations the engine makes per job
MaxCancels == 2    \* cancel clicks per job

Jobs == 1..MaxJobs

\* Python's None for a number the engine may leave out (sizes are >= 0).
None == -1

\* ------------------------------------------------------------------ inputs
\* Text typed into a QLineEdit: a sequence of characters.
Urls == {<<" ">>, <<" ", "u">>}
\* What QFileDialog hands back ("" when the dialog is dismissed).
\* os.makedirs succeeds on "good" and raises OSError on "ro".
Dirs == {"", "good", "ro"}
CookieFiles == {<<>>, <<"k">>}
\* Text typed into the cookies field.
CookieTexts == {<<>>, <<" ", "k">>}
\* info.get("title") of ydl.extract_info: "" stands for a missing title.
Titles == {"", "T"}

VARIABLES
    url_edit,           \* MainWindow.url_edit.text()
    cookies_edit,       \* MainWindow.cookies_edit.text()
    out_dir,            \* MainWindow.out_dir
    start_btn,          \* start_btn.isEnabled()
    cancel_btn,         \* cancel_btn.isEnabled()
    choose_dir_btn,     \* choose_dir_btn.isEnabled()
    choose_cookies_btn, \* choose_cookies_btn.isEnabled()
    progress,           \* MainWindow.progress.value()
    status_label,       \* status_label.text()
    log_view,           \* lines of log_view
    msgbox,             \* the QMessageBox that is open ("" for none)
    worker,             \* MainWindow.worker: 0 for None, else the job's id
    workers,            \* the YtDlpWorker objects and their threads, by job id
    queue,              \* signal deliveries posted to the main thread
    emitted             \* the signals of the latest step that emitted any, in order

vars == <<url_edit, cookies_edit, out_dir, start_btn, cancel_btn, choose_dir_btn,
          choose_cookies_btn, progress, status_label, log_view, msgbox, worker,
          workers, queue, emitted>>

ui == <<url_edit, cookies_edit, out_dir, start_btn, cancel_btn, choose_dir_btn,
        choose_cookies_btn, progress, status_label, log_view, msgbox, worker>>

\* ------------------------------------------------------------- pure helpers
\* str.strip(): drop leading and trailing whitespace.
RECURSIVE LStrip(_)
LStrip(s) == IF s /= <<>> /\ Head(s) = " " THEN LStrip(Tail(s)) ELSE s

RECURSIVE RStrip(_)
RStrip(s) == IF s /= <<>> /\ s[Len(s)] = " " THEN RStrip(SubSeq(s, 1, Len(s) - 1)) ELSE s

\* The text as typed, not stripped.
stripNothing(s) == s

strip(s) == RStrip(LStrip(s))

\* DownloadOptions(url, out_dir, cookies_file); cookies_file <<>> is None.
DownloadOptions(url, dir, cookies) ==
    [url |-> url, out_dir |-> dir, cookies_file |-> cookies]

NoOptions == DownloadOptions(<<>>, "", <<>>)

\* One signal emission of a worker: progress(int), status(str), log(str),
\* finished(bool, str).  text is the string as a sequence of its pieces; seq
\* is the emission's place among the emissions of its worker (set by Stamp).
Ev(j, kind, pct, ok, text) ==
    [job |-> j, kind |-> kind, pct |-> pct, ok |-> ok, text |-> text, seq |-> 0]

\* The emissions evs, numbered after the n emissions their worker has made.
Stamp(evs, n) == [i \in DOMAIN evs |-> [evs[i] EXCEPT !.seq = n + i]]

ProgressEv(j, pct) == Ev(j, "Progress", pct, FALSE, <<>>)
StatusEv(j, text) == Ev(j, "Status", 0, FALSE, text)
LogEv(j, text) == Ev(j, "Log", 0, FALSE, text)
FinishedEv(j, ok, text) == Ev(j, "Finished", 0, ok, text)

\* The dict d yt-dlp hands to a progress hook: the keys _hook reads.
\* A number that is None or absent is None; a missing filename is <<>>.
HookDict(status, total, estimate, downloaded, speed, eta, filename) ==
    [status |-> status, total_bytes |-> total, total_bytes_estimate |-> estimate,
     downloaded_bytes |-> downloaded, speed |-> speed, eta |-> eta,
     filename |-> filename]

\* No hook call yet.
NoDict == HookDict("", None, None, None, None, None, <<>>)

\* ---------------------------------------------------------------- YtDlpWorker
\* YtDlpWorker.__init__: the options and a cleared cancel flag.  pc is the
\* position of the worker's thread in run(), err the exception it is
\* handling and d the argument of its latest _hook call; hooks, cancels,
\* finished and emits count the _hook calls, the cancel() calls, the
\* finished.emit calls and all the emit calls of the job.
YtDlpWorker(opts) ==
    [opts |-> opts, _cancel |-> FALSE, pc |-> "start", err |-> "", d |-> NoDict,
     hooks |-> 0, cancels |-> 0, finished |-> 0, emits |-> 0]

\* A job id that no start has used yet.
NoWorker == [YtDlpWorker(NoOptions) EXCEPT !.pc = "none"]

\* A worker that start_download has replaced in MainWindow.worker after its
\* thread ended: nothing refers to the object any more.
Collected == [YtDlpWorker(NoOptions) EXCEPT !.pc = "gone"]

\* ------------------------------------------------------------ progress hook

\* Python truthiness of an optional number: None and 0 are false.
Truthy(x) == x /= None /\ x /= 0

\* d.get("total_bytes") or d.get("total_bytes_estimate")
Total(d) == IF Truthy(d.total_bytes) THEN d.total_bytes ELSE d.total_bytes_estimate

\* int(downloaded * 100 / total): true division, then truncation toward zero.
Pct(downloaded, total) ==
    LET n == downloaded * 100
        q == (IF n < 0 THEN -n ELSE n) \div (IF total < 0 THEN -total ELSE total)
    IN  IF (n < 0) = (total < 0) THEN q ELSE -q

Min(a, b) == IF a < b THEN a ELSE b
Max(a, b) == IF a > b THEN a ELSE b

\* max(0, pct): the upper limit left out.
ClampBelowOnly(pct) == IF pct < 0 THEN 0 ELSE pct

\* max(0, min(100, pct))
Clamp(pct) == Max(0, Min(100, pct))

\* os.path.basename: what follows the last "/".
RECURSIVE basename(_)
basename(p) ==
    IF p = <<>> THEN <<>>
    ELSE IF p[Len(p)] = "/" THEN <<>>
    ELSE Append(basename(SubSeq(p, 1, Len(p) - 1)), p[Len(p)])

\* f"{spd/1024/1024:.2f}": hundredths of a MiB/s, rounded half to even.
MiB == 1048576

Hundredths(spd) ==
    LET q == (spd * 100) \div MiB
        r == (spd * 100) % MiB
    IN  IF 2 * r > MiB THEN q + 1
        ELSE IF 2 * r < MiB THEN q
        ELSE IF q % 2 = 0 THEN q ELSE q + 1

Fmt2f(spd) ==
    LET h == Hundredths(spd)
    IN  <<ToString(h \div 100), ".", ToString((h % 100) \div 10), ToString(h % 10)>>

\* A progress.emit that takes an unknown total for 0 percent.
HookProgressUnknownAsZero(j, d) ==
    IF d.downloaded_bytes = None THEN <<>>
    ELSE IF Truthy(Total(d))
    THEN <<ProgressEv(j, Clamp(Pct(d.downloaded_bytes, Total(d))))>>
    ELSE <<ProgressEv(j, 0)>>

\* The progress.emit of the "downloading" branch, when it is made.
HookProgress(j, d) ==
    IF Truthy(Total(d)) /\ d.downloaded_bytes /= None
    THEN <<ProgressEv(j, Clamp(Pct(d.downloaded_bytes, Total(d))))>>
    ELSE <<>>

\* msg of the "downloading" branch.
StatusMsg(d) ==
    <<"downloading: ">> \o basename(d.filename)
    \o (IF Truthy(d.speed) THEN <<" | ">> \o Fmt2f(d.speed) \o <<" MiB/s">> ELSE <<>>)
    \o (IF d.eta /= None THEN <<" | ETA ", ToString(d.eta), "s">> ELSE <<>>)

\* A hook that reports the status only together with a percentage.
HookEventsNoStatusAlone(j, d) ==
    IF d.status = "downloading"
    THEN IF HookProgress(j, d) = <<>>
         THEN <<>>
         ELSE HookProgress(j, d) \o <<StatusEv(j, StatusMsg(d))>>
    ELSE IF d.status = "finished"
    THEN <<ProgressEv(j, 100), StatusEv(j, <<"downloaded, post-processing">>),
           LogEv(j, <<"file downloaded, waiting for post-processing">>)>>
    ELSE <<>>

\* A hook whose "finished" branch emits the log line first.
HookEventsLogFirst(j, d) ==
    IF d.status = "downloading"
    THEN HookProgress(j, d) \o <<StatusEv(j, StatusMsg(d))>>
    ELSE IF d.status = "finished"
    THEN <<LogEv(j, <<"file downloaded, waiting for post-processing">>),
           ProgressEv(j, 100), StatusEv(j, <<"downloaded, post-processing">>)>>
    ELSE <<>>

\* What a hook call that is not cancelled emits, in order.
HookEvents(j, d) ==
    IF d.status = "downloading"
    THEN HookProgress(j, d) \o <<StatusEv(j, StatusMsg(d))>>
    ELSE IF d.status = "finished"
    THEN <<ProgressEv(j, 100), StatusEv(j, <<"downloaded, post-processing">>),
           LogEv(j, <<"file downloaded, waiting for post-processing">>)>>
    ELSE <<>>

\* A hook that does not look at the cancel flag.
HookNeverRaises(w) == FALSE

\* A hook that looks at the cancel flag on its first call only.
HookRaisesFirstCallOnly(w) == w._cancel /\ w.hooks = 0

\* The first statement of _hook: whether it raises DownloadError.
HookRaises(w) == w._cancel

\* ------------------------------------------------------------------ signals
\* Signals emitted from worker j's thread: posted to the main thread.
EmitQueued(j, evs) ==
    /\ queue' = queue \o Stamp(evs, workers[j].emits)
    /\ emitted' = IF evs = <<>> THEN emitted ELSE Stamp(evs, workers[j].emits)

\* -------------------------------------------------------------- MainWindow
\* A set_busy that leaves the start button enabled.
set_busy_start_enabled(busy) ==
    /\ start_btn' = TRUE
    /\ cancel_btn' = busy
    /\ choose_dir_btn' = ~busy
    /\ choose_cookies_btn' = ~busy

\* set_busy(busy)
set_busy(busy) ==
    /\ start_btn' = ~busy
    /\ cancel_btn' = busy
    /\ choose_dir_btn' = ~busy
    /\ choose_cookies_btn' = ~busy

\* The job a start creates: the lowest id without a worker (0 when the
\* MaxJobs jobs of the behaviour are used up).
NextJob ==
    IF \E j \in Jobs : workers[j].pc = "none"
    THEN CHOOSE j \in Jobs : workers[j].pc = "none" /\ \A k \in 1..(j - 1) : workers[k].pc /= "none"
    ELSE 0

\* A QMessageBox is modal: while one is open the window takes no clicks and
\* no typing (the nested event loop still delivers posted signals).
Interactive == msgbox = ""

\* The user closes the open QMessageBox; the handler that opened it returns.
DismissBox ==
    /\ msgbox /= ""
    /\ msgbox' = ""
    /\ UNCHANGED <<url_edit, cookies_edit, out_dir, start_btn, cancel_btn,
                   choose_dir_btn, choose_cookies_btn, progress, status_label,
                   log_view, worker, workers, queue, emitted>>

\* A URL field that the options of the current worker read through.
EditUrlShared ==
    /\ Interactive
    /\ \E u \in Urls :
          /\ url_edit' = u
          /\ workers' = IF worker /= 0
                        THEN [workers EXCEPT ![worker].opts.url = strip(u)]
                        ELSE workers
    /\ UNCHANGED <<cookies_edit, out_dir, start_btn, cancel_btn, choose_dir_btn,
                   choose_cookies_btn, progress, status_label, log_view, msgbox,
                   worker, queue, emitted>>

\* The user types into the URL field.
EditUrl ==
    /\ Interactive
    /\ \E u \in Urls : url_edit' = u
    /\ UNCHANGED <<cookies_edit, out_dir, start_btn, cancel_btn, choose_dir_btn,
                   choose_cookies_btn, progress, status_label, log_view, msgbox,
                   worker, workers, queue, emitted>>

\* The user types into the cookies field (it stays editable while busy).
EditCookies ==
    /\ Interactive
    /\ \E c \in CookieTexts : cookies_edit' = c
    /\ UNCHANGED <<url_edit, out_dir, start_btn, cancel_btn, choose_dir_btn,
                   choose_cookies_btn, progress, status_label, log_view, msgbox,
                   worker, workers, queue, emitted>>

\* choose_dir: a click on choose_dir_btn; d is the dialog's answer.
choose_dir ==
    /\ Interactive
    /\ choose_dir_btn
    /\ \E d \in Dirs : out_dir' = IF d /= "" THEN d ELSE out_dir
    /\ UNCHANGED <<url_edit, cookies_edit, start_btn, cancel_btn, choose_dir_btn,
                   choose_cookies_btn, progress, status_label, log_view, msgbox,
                   worker, workers, queue, emitted>>

\* choose_cookies: a click on choose_cookies_btn; f is the dialog's answer.
choose_cookies ==
    /\ Interactive
    /\ choose_cookies_btn
    /\ \E f \in CookieFiles : cookies_edit' = IF f /= <<>> THEN f ELSE cookies_edit
    /\ UNCHANGED <<url_edit, out_dir, start_btn, cancel_btn, choose_dir_btn,
                   choose_cookies_btn, progress, status_label, log_view, msgbox,
                   worker, workers, queue, emitted>>

\* start_download, the two early returns: a warning box and nothing else.
StartRejected ==
    /\ Interactive
    /\ start_btn
    /\ \/ /\ strip(url_edit) = <<>>
          /\ msgbox' = "enter a link"
       \/ /\ strip(url_edit) /= <<>>
          /\ out_dir = ""
          /\ msgbox' = "choose a directory"
    /\ UNCHANGED <<url_edit, cookies_edit, out_dir, start_btn, cancel_btn,
                   choose_dir_btn, choose_cookies_btn, progress, status_label,
                   log_view, worker, workers, queue, emitted>>

\* A start_download whose new worker inherits the flag of the one it replaces.
StartAcceptedKeepsFlag ==
    /\ Interactive
    /\ start_btn
    /\ strip(url_edit) /= <<>>
    /\ out_dir /= ""
    /\ NextJob /= 0
    /\ progress' = 0
    /\ log_view' = <<>>
    /\ status_label' = <<"starting download thread">>
    /\ set_busy(TRUE)
    /\ worker' = NextJob
    /\ workers' = [j \in Jobs |->
                     IF j = NextJob
                     THEN [YtDlpWorker(DownloadOptions(strip(url_edit), out_dir,
                                                       strip(cookies_edit)))
                             EXCEPT !._cancel = (worker /= 0 /\ workers[worker]._cancel)]
                     ELSE IF j = worker /\ workers[j].pc = "done"
                     THEN Collected
                     ELSE workers[j]]
    /\ emitted' = <<>>
    /\ UNCHANGED <<url_edit, cookies_edit, out_dir, msgbox, queue>>

\* start_download past the checks: reset the display, go busy, build the
\* options and the worker, connect its signals and start its thread.
StartAccepted ==
    /\ Interactive
    /\ start_btn
    /\ strip(url_edit) /= <<>>
    /\ out_dir /= ""
    /\ NextJob /= 0
    /\ progress' = 0
    /\ log_view' = <<>>
    /\ status_label' = <<"starting download thread">>
    /\ set_busy(TRUE)
    /\ worker' = NextJob
    /\ workers' = [j \in Jobs |->
                     IF j = NextJob
                     THEN YtDlpWorker(DownloadOptions(strip(url_edit), out_dir,
                                                      strip(cookies_edit)))
                     ELSE IF j = worker /\ workers[j].pc = "done"
                     THEN Collected
                     ELSE workers[j]]
    /\ emitted' = <<>>
    /\ UNCHANGED <<url_edit, cookies_edit, out_dir, msgbox, queue>>

\* start_download: a click on start_btn.
start_download == StartRejected \/ StartAccepted

\* A cancel() that toggles the flag.
CancelFlagToggle(w) == ~w

\* YtDlpWorker.cancel, the flag: set, whatever it was.
CancelFlag(w) == TRUE

\* A cancel() that ends the job itself: it emits finished as well.
CancelLogAndFinished(j) ==
    <<LogEv(j, <<"cancel requested, waiting for yt-dlp to stop">>),
      FinishedEv(j, FALSE, <<"Cancelled by user">>)>>

\* YtDlpWorker.cancel, the log line: emitted from the main thread, so the
\* connected slot append_log runs inside the emit.
CancelLog(j) == <<LogEv(j, <<"cancel requested, waiting for yt-dlp to stop">>)>>

\* cancel_download: a click on cancel_btn.
cancel_download ==
    /\ Interactive
    /\ cancel_btn
    /\ IF worker /= 0
       THEN /\ workers[worker].cancels < MaxCancels
            /\ workers' = [workers EXCEPT ![worker]._cancel = CancelFlag(@),
                                          ![worker].cancels = @ + 1,
                                          ![worker].emits = @ + Len(CancelLog(worker))]
            /\ emitted' = Stamp(CancelLog(worker), workers[worker].emits)
            /\ log_view' = log_view \o [i \in DOMAIN CancelLog(worker) |->
                                          CancelLog(worker)[i].text]
            /\ status_label' = <<"cancelling">>
       ELSE UNCHANGED <<workers, emitted, log_view, status_label>>
    /\ UNCHANGED <<url_edit, cookies_edit, out_dir, start_btn, cancel_btn,
                   choose_dir_btn, choose_cookies_btn, progress, msgbox, worker,
                   queue>>

\* An on_finished that leaves the busy state on success only.
on_finished_busy_after_failure(ok, msg) ==
    /\ set_busy(~ok)
    /\ status_label' = IF ok THEN <<"done">> ELSE <<"failed">>
    /\ log_view' = Append(log_view, (IF ok THEN <<"OK ">> ELSE <<"FAIL ">>) \o msg)
    /\ msgbox' = IF ok THEN msgbox ELSE "download failed"
    /\ UNCHANGED progress

\* on_finished(ok, msg)
on_finished(ok, msg) ==
    /\ set_busy(FALSE)
    /\ status_label' = IF ok THEN <<"done">> ELSE <<"failed">>
    /\ log_view' = Append(log_view, (IF ok THEN <<"OK ">> ELSE <<"FAIL ">>) \o msg)
    /\ msgbox' = IF ok THEN msgbox ELSE "download failed"
    /\ UNCHANGED progress

\* The main thread's event loop takes the oldest posted signal and runs the
\* slot connected to it: progress.setValue, status_label.setText, append_log
\* or on_finished.
Deliver ==
    /\ queue /= <<>>
    /\ queue' = Tail(queue)
    /\ LET e == Head(queue)
       IN  CASE e.kind = "Progress" ->
                  /\ progress' = e.pct
                  /\ UNCHANGED <<status_label, log_view, msgbox, start_btn, cancel_btn,
                                 choose_dir_btn, choose_cookies_btn>>
             [] e.kind = "Status" ->
                  /\ status_label' = e.text
                  /\ UNCHANGED <<progress, log_view, msgbox, start_btn, cancel_btn,
                                 choose_dir_btn, choose_cookies_btn>>
             [] e.kind = "Log" ->
                  /\ log_view' = Append(log_view, e.text)
                  /\ UNCHANGED <<progress, status_label, msgbox, start_btn, cancel_btn,
                                 choose_dir_btn, choose_cookies_btn>>
             [] e.kind = "Finished" -> on_finished(e.ok, e.text)
    /\ UNCHANGED <<url_edit, cookies_edit, out_dir, worker, workers, emitted>>

\* ---------------------------------------------------------- YtDlpWorker.run
\* A run() that goes on whatever makedirs did.
MakedirsIgnored(dir) == TRUE

\* os.makedirs(out_dir, exist_ok=True) returns (it raises OSError otherwise).
MakedirsOk(dir) == dir = "good"

\* The log lines run() emits before it calls the engine.
RunLogs(j, opts) ==
    <<LogEv(j, <<"start download: ">> \o opts.url),
      LogEv(j, <<"save dir: ", opts.out_dir>>)>>
    \o (IF opts.cookies_file /= <<>>
        THEN <<LogEv(j, <<"use cookies: ">> \o opts.cookies_file)>>
        ELSE <<>>)

\* What run() emits for a title that extract_info returned.
TitleEvents(j, title) ==
    IF title /= ""
    THEN <<StatusEv(j, <<"parsed: ", title>>), LogEv(j, <<"title: ", title>>)>>
    ELSE <<>>

\* The last statement of the try block.
RunOkEvents(j) == <<FinishedEv(j, TRUE, <<"download complete">>)>>

\* An except clause that swallows the error.
RunExceptSilent(j, err) == <<>>

\* An except clause that reports success.
RunExceptAsOk(j, err) == <<FinishedEv(j, TRUE, <<"download complete">>)>>

\* The except clause: finished.emit(False, str(e)).
RunExceptEvents(j, err) == <<FinishedEv(j, FALSE, <<err>>)>>

\* run() up to the engine: makedirs, the options, the first log lines.
RunStart(j) ==
    /\ workers[j].pc = "start"
    /\ IF MakedirsOk(workers[j].opts.out_dir)
       THEN /\ EmitQueued(j, RunLogs(j, workers[j].opts))
            /\ workers' = [workers EXCEPT ![j].pc = "extract",
                                          ![j].emits = @ + Len(RunLogs(j, workers[j].opts))]
       ELSE /\ workers' = [workers EXCEPT ![j].pc = "except",
                                          ![j].err = "makedirs failed"]
            /\ UNCHANGED <<queue, emitted>>
    /\ UNCHANGED ui

\* ydl.extract_info(url, download=False): it raises, or returns the info.
RunExtract(j) ==
    /\ workers[j].pc = "extract"
    /\ \/ /\ workers' = [workers EXCEPT ![j].pc = "except",
                                        ![j].err = "extract failed"]
          /\ UNCHANGED <<queue, emitted>>
       \/ \E title \in Titles :
            /\ EmitQueued(j, TitleEvents(j, title))
            /\ workers' = [workers EXCEPT ![j].pc = "download",
                                          ![j].emits = @ + Len(TitleEvents(j, title))]
    /\ UNCHANGED ui

\* The engine, inside ydl.download, calls _hook(d).  A DownloadError raised
\* by the hook is raised by ydl.download in turn (ignoreerrors is False).
HookCall(j, d) ==
    /\ workers[j].pc = "download"
    /\ workers[j].hooks < MaxHooks
    /\ IF HookRaises(workers[j])
       THEN /\ workers' = [workers EXCEPT ![j].pc = "except",
                                          ![j].err = "Cancelled by user",
                                          ![j].d = d,
                                          ![j].hooks = @ + 1]
            /\ UNCHANGED <<queue, emitted>>
       ELSE /\ EmitQueued(j, HookEvents(j, d))
            /\ workers' = [workers EXCEPT ![j].d = d, ![j].hooks = @ + 1,
                                          ![j].emits = @ + Len(HookEvents(j, d))]
    /\ UNCHANGED ui

\* ydl.download returns; run() emits finished(True, ...) and ends.
DownloadReturn(j) ==
    /\ workers[j].pc = "download"
    /\ EmitQueued(j, RunOkEvents(j))
    /\ workers' = [workers EXCEPT ![j].pc = "done",
                                  ![j].finished = @ + Len(RunOkEvents(j)),
                                  ![j].emits = @ + Len(RunOkEvents(j))]
    /\ UNCHANGED ui

\* ydl.download raises an error of its own.
DownloadRaise(j) ==
    /\ workers[j].pc = "download"
    /\ workers' = [workers EXCEPT ![j].pc = "except", ![j].err = "download failed"]
    /\ UNCHANGED <<queue, emitted>>
    /\ UNCHANGED ui

\* except Exception as e: finished.emit(False, str(e)); run() ends.
RunExcept(j) ==
    /\ workers[j].pc = "except"
    /\ EmitQueued(j, RunExceptEvents(j, workers[j].err))
    /\ workers' = [workers EXCEPT ![j].pc = "done",
                                  ![j].finished = @ + Len(RunExceptEvents(j, workers[j].err)),
                                  ![j].emits = @ + Len(RunExceptEvents(j, workers[j].err))]
    /\ UNCHANGED ui

\* The hook dicts of the whole-program specification.
HookInputs ==
    {HookDict("downloading", 3, None, 1, None, None, <<>>),
     HookDict("finished", 3, None, 3, None, None, <<>>),
     HookDict("error", None, None, None, None, None, <<>>)}

Hook(j) == \E d \in HookInputs : HookCall(j, d)

Init ==
    /\ url_edit = <<>>
    /\ cookies_edit = <<>>
    /\ out_dir = ""
    /\ start_btn = TRUE
    /\ cancel_btn = FALSE
    /\ choose_dir_btn = TRUE
    /\ choose_cookies_btn = TRUE
    /\ progress = 0
    /\ status_label = <<"ready">>
    /\ log_view = <<>>
    /\ msgbox = ""
    /\ worker = 0
    /\ workers = [j \in Jobs |-> NoWorker]
    /\ queue = <<>>
    /\ emitted = <<>>

Observer ==
    \/ DismissBox
    \/ EditUrl
    \/ choose_dir
    \/ choose_cookies
    \/ start_download
    \/ cancel_download
    \/ Deliver

Background(j) ==
    \/ RunStart(j)
    \/ RunExtract(j)
    \/ Hook(j)
    \/ DownloadReturn(j)
    \/ DownloadRaise(j)
    \/ RunExcept(j)

Next == Observer \/ \E j \in Jobs : Background(j)

Spec == Init /\ [][Next]_vars

\* -------------------------------------------------- the hook on its own
\* The hook dicts of HookSpec: sizes unknown, zero, small and large, with
\* and without an estimate, a speed and an ETA.
HookDicts ==
    {HookDict(st, tb, te, db, sp, eta, <<"d", "/", "a">>) :
        st \in {"downloading", "finished"},
        tb \in {None, 0, 1000000}, te \in {None, 9},
        db \in {None, 7, 512000}, sp \in {None, 131072}, eta \in {None, 0}}

HookAny(j) == \E d \in HookDicts : HookCall(j, d)

\* The job of HookInit: started on " u" into "good", without cookies.
HookJob == DownloadOptions(strip(<<" ", "u">>), "good", <<>>)

\* A state of Spec: job 1 is inside ydl.download (extract_info returned no
\* title) and the main thread has not yet handled any of its signals.  From
\* there HookSpec lets the engine call the hook with any dict of HookDicts,
\* with a user who does not click cancel.
HookInit ==
    /\ url_edit = <<" ", "u">>
    /\ cookies_edit = <<>>
    /\ out_dir = "good"
    /\ start_btn = FALSE
    /\ cancel_btn = TRUE
    /\ choose_dir_btn = FALSE
    /\ choose_cookies_btn = FALSE
    /\ progress = 0
    /\ status_label = <<"starting download thread">>
    /\ log_view = <<>>
    /\ msgbox = ""
    /\ worker = 1
    /\ workers = [j \in Jobs |->
                    IF j = 1
                    THEN [YtDlpWorker(HookJob) EXCEPT
                            !.pc = "download", !.emits = Len(RunLogs(1, HookJob))]
                    ELSE NoWorker]
    /\ queue = Stamp(RunLogs(1, HookJob), 0)
    /\ emitted = Stamp(RunLogs(1, HookJob), 0)

HookNext ==
    \/ DismissBox
    \/ Deliver
    \/ \E j \in Jobs :
          \/ HookAny(j)
          \/ DownloadReturn(j)
          \/ DownloadRaise(j)
          \/ RunExcept(j)

HookSpec == HookInit /\ [][HookNext]_vars

\* HookInit is a state of Spec: as an invariant of Spec this is violated, by
\* the behaviour that types " u", chooses "good", starts, and runs to download.
HookInitReached == ~HookInit

\* ------------------------------------------- typing while a job runs
\* A cancel click by a user who clicks cancel once per job.
CancelOnce ==
    /\ worker /= 0
    /\ workers[worker].cancels = 0
    /\ cancel_download

\* What the main thread does in EditSpec.
EditObserver ==
    \/ DismissBox
    \/ EditUrl
    \/ EditCookies
    \/ choose_dir
    \/ choose_cookies
    \/ start_download
    \/ CancelOnce
    \/ Deliver

EditNext == EditObserver \/ \E j \in Jobs : Background(j)

\* The whole program with a user who also types into the cookies field, at
\* any time, and clicks cancel at most once per job.
EditSpec == Init /\ [][EditNext]_vars

\* ------------------------------------------------ after a cancelled job
\* A state of Spec: job 1 (" u" into "good", no cookies) was cancelled before
\* its first callback, which raised; its Finished(False, "Cancelled by user")
\* has been handled and the critical box closed.  The window is idle again
\* and MainWindow.worker still refers to the cancelled worker.
CancelledInit ==
    /\ url_edit = <<" ", "u">>
    /\ cookies_edit = <<>>
    /\ out_dir = "good"
    /\ start_btn = TRUE
    /\ cancel_btn = FALSE
    /\ choose_dir_btn = TRUE
    /\ choose_cookies_btn = TRUE
    /\ progress = 0
    /\ status_label = <<"failed">>
    /\ log_view = [i \in DOMAIN RunLogs(1, HookJob) |-> RunLogs(1, HookJob)[i].text]
                    \o <<CancelLog(1)[1].text, <<"FAIL ", "Cancelled by user">>>>
    /\ msgbox = ""
    /\ worker = 1
    /\ workers = [j \in Jobs |->
                    IF j = 1
                    THEN [YtDlpWorker(HookJob) EXCEPT
                            !._cancel = TRUE, !.pc = "done",
                            !.err = "Cancelled by user",
                            !.d = HookDict("downloading", 3, None, 1, None, None, <<>>),
                            !.hooks = 1, !.cancels = 1, !.finished = 1,
                            !.emits = Len(RunLogs(1, HookJob)) + 2]
                    ELSE NoWorker]
    /\ queue = <<>>
    /\ emitted = Stamp(RunExceptEvents(1, "Cancelled by user"),
                       Len(RunLogs(1, HookJob)) + 1)

\* The whole program from there on.
CancelledSpec == CancelledInit /\ [][Next]_vars

\* CancelledInit is a state of Spec: as an invariant of Spec this is violated.
CancelledInitReached == ~CancelledInit

\* ===================================================================== claims
\* The jobs whose thread is inside run().
Running == {j \in Jobs : workers[j].pc \in {"start", "extract", "download", "except"}}

\* The events a step appends to the main thread's queue.
NewQueued == SubSeq(queue', Len(queue) + 1, Len(queue'))

\* Emissions without their sequence numbers.
Unstamp(evs) == [i \in DOMAIN evs |-> [evs[i] EXCEPT !.seq = 0]]

\* The step is a _hook call of job j.
HookStep(j) == workers'[j].hooks = workers[j].hooks + 1

\* The Finished events of job j waiting in the queue.
QueuedFinished(j) ==
    {i \in DOMAIN queue : queue[i].job = j /\ queue[i].kind = "Finished"}

CancelText == <<"cancel requested, waiting for yt-dlp to stop">>

\* C1: a job whose run() has ended has emitted exactly one Finished event,
\* and a job whose run() has not ended has emitted none: on every path
\* through run() the count goes from 0 to 1 at the end and never to 2.
ExactlyOneFinished ==
    \A j \in Jobs :
        /\ workers[j].finished = (IF workers[j].pc = "done" THEN 1 ELSE 0)
        /\ Cardinality(QueuedFinished(j)) <= workers[j].finished

\* C1 witness: a run that ended through the cancellation abort, with its one
\* Finished event emitted.
ExactlyOneFinishedWitness ==
    \E j \in Jobs :
        /\ workers[j].pc = "done"
        /\ workers[j].err = "Cancelled by user"
        /\ workers[j].finished = 1
        /\ Cardinality(QueuedFinished(j)) = 1

\* C2 (as claimed): whenever a Progress, Status or Log event of a job is
\* emitted, the job has not emitted its Finished event yet.
NoEventAfterFinished ==
    \A i \in DOMAIN emitted :
        emitted[i].kind \in {"Progress", "Status", "Log"}
            => workers[emitted[i].job].finished = 0

\* C3: when the first _hook call of a job comes after a cancel(), it emits
\* nothing and raises "Cancelled by user" into ydl.download, and run() leaves
\* that error only by emitting Finished(False, "Cancelled by user") and ending.
CancelBeforeFirstCallback ==
    [][\A j \in Jobs :
          /\ (workers[j].hooks = 0 /\ workers[j]._cancel /\ HookStep(j))
                => /\ workers'[j].pc = "except"
                   /\ workers'[j].err = "Cancelled by user"
                   /\ workers'[j].emits = workers[j].emits
                   /\ queue' = queue
          /\ (workers[j].pc = "except" /\ workers[j].err = "Cancelled by user"
                /\ workers'[j].pc /= "except")
                => /\ workers'[j].pc = "done"
                   /\ Unstamp(NewQueued) = <<FinishedEv(j, FALSE, <<"Cancelled by user">>)>>
      ]_vars

\* C3 witness: a job ended by its first callback, which found the flag set;
\* its Finished(False, "Cancelled by user") is the latest emission.
CancelBeforeFirstCallbackWitness ==
    \E j \in Jobs :
        /\ workers[j].pc = "done"
        /\ workers[j].hooks = 1
        /\ workers[j]._cancel
        /\ Unstamp(emitted) = <<FinishedEv(j, FALSE, <<"Cancelled by user">>)>>

\* C4 (as claimed): a cancel click on a worker whose flag is already set
\* changes neither the flag nor the events emitted to the observer.
CancelIdempotent ==
    [][(cancel_download /\ worker /= 0 /\ workers[worker]._cancel)
          => /\ workers'[worker]._cancel = workers[worker]._cancel
             /\ workers'[worker].emits = workers[worker].emits
             /\ log_view' = log_view
      ]_vars

\* C4 (amended): every cancel click, the first or a repeated one, leaves the
\* flag set and emits exactly one more Log event, the cancel line, which is
\* appended to the log view at once.
CancelFlagIdempotentLogRepeated ==
    [][(cancel_download /\ worker /= 0)
          => /\ workers'[worker]._cancel
             /\ workers'[worker].emits = workers[worker].emits + 1
             /\ Unstamp(emitted') = <<LogEv(worker, CancelText)>>
             /\ log_view' = Append(log_view, CancelText)
             /\ queue' = queue
      ]_vars

\* C4 witness: two cancel clicks on one job; the flag is set and the log view
\* holds two cancel lines.
CancelTwiceWitness ==
    \E j \in Jobs :
        /\ workers[j].cancels = 2
        /\ workers[j]._cancel
        /\ Len(SelectSeq(log_view, LAMBDA l : l = CancelText)) = 2

\* A directory that os.makedirs cannot create.
Uncreatable(dir) == dir = "ro"

\* C5 (as claimed): start_download fails on the spot for a directory that
\* cannot be created: no worker and no thread ever exist for such a request.
MakedirsFailsInStart ==
    \A j \in Jobs :
        workers[j].pc \notin {"none", "gone"} => ~Uncreatable(workers[j].opts.out_dir)

\* C5 (amended): for a directory that cannot be created start_download
\* launches the thread all the same; run() fails in makedirs before it emits
\* a log line or calls the engine, and the failure comes back as the job's
\* Finished(False, "makedirs failed") event.
MakedirsFailsInRun ==
    \A j \in Jobs :
        (workers[j].pc \notin {"none", "gone"} /\ Uncreatable(workers[j].opts.out_dir))
            => /\ workers[j].pc \in {"start", "except", "done"}
               /\ workers[j].hooks = 0
               /\ workers[j].pc /= "start" => workers[j].err = "makedirs failed"
               /\ workers[j].emits = workers[j].finished + workers[j].cancels
               /\ \A i \in DOMAIN queue :
                     queue[i].job = j
                        => Unstamp(<<queue[i]>>) = <<FinishedEv(j, FALSE, <<"makedirs failed">>)>>

\* C5 witness: the thread of a job into "ro" has ended and its Finished(False)
\* waits in the main thread's queue.
MakedirsFailsInRunWitness ==
    \E j \in Jobs :
        /\ Uncreatable(workers[j].opts.out_dir)
        /\ workers[j].pc = "done"
        /\ Unstamp(queue) = <<FinishedEv(j, FALSE, <<"makedirs failed">>)>>

\* A text of nothing but whitespace.
IsBlank(s) == \A i \in DOMAIN s : s[i] = " "

\* C6: a start click with a blank URL or without a directory opens a warning
\* box and does nothing else: no worker, no thread, the buttons, the progress
\* bar, the status and the log as they were, and no signal emitted.
RejectedStartChangesNothing ==
    [][(start_download /\ (IsBlank(url_edit) \/ out_dir = ""))
          => /\ msgbox' \in {"enter a link", "choose a directory"}
             /\ UNCHANGED <<worker, workers, queue, emitted>>
             /\ UNCHANGED <<start_btn, cancel_btn, choose_dir_btn, choose_cookies_btn>>
             /\ UNCHANGED <<progress, status_label, log_view>>
      ]_vars

\* C6 witness: the warning for a URL of one space is open, after an earlier
\* job left lines in the log view; no second job exists.
RejectedStartWitness ==
    /\ msgbox = "enter a link"
    /\ url_edit = <<" ">>
    /\ out_dir /= ""
    /\ log_view /= <<>>
    /\ workers[2].pc = "none"

\* C7: at most one job is inside run(), it is MainWindow.worker, and while
\* the start button is enabled no job is inside run() and no signal of an
\* earlier job is still to be handled.
OneJobAtATime ==
    /\ Cardinality(Running) <= 1
    /\ \A j \in Running : j = worker
    /\ start_btn => (Running = {} /\ queue = <<>>)

\* C7 witness: a second job is inside ydl.download after the first one's
\* Finished was handled and its worker replaced.
OneJobAtATimeWitness ==
    /\ workers[1].pc = "gone"
    /\ workers[2].pc = "download"
    /\ worker = 2

\* The size the engine reports: total_bytes, else total_bytes_estimate.
KnownTotal(d) ==
    IF d.total_bytes > 0 THEN d.total_bytes
    ELSE IF d.total_bytes_estimate > 0 THEN d.total_bytes_estimate
    ELSE None

\* clamp(floor(b * 100 / t), 0, 100)
ClaimedPercent(b, t) ==
    LET f == (b * 100) \div t
    IN  IF f < 0 THEN 0 ELSE IF f > 100 THEN 100 ELSE f

\* The Progress events among evs.
ProgressOf(evs) == SelectSeq(evs, LAMBDA e : e.kind = "Progress")

\* C8: a "downloading" callback that is not cancelled, with downloaded bytes
\* b and a known total t > 0, emits exactly one Progress event, of value
\* clamp(floor(b*100/t), 0, 100); and every Progress event any callback
\* emits lies in 0..100.
ProgressIsClampedFloor ==
    [][\A j \in Jobs :
          (HookStep(j) /\ ~workers[j]._cancel)
             => LET d == workers'[j].d
                    b == d.downloaded_bytes
                    t == KnownTotal(d)
                IN  /\ (d.status = "downloading" /\ b /= None /\ t /= None)
                         => /\ Len(ProgressOf(NewQueued)) = 1
                            /\ ProgressOf(NewQueued)[1].pct = ClaimedPercent(b, t)
                    /\ \A i \in DOMAIN NewQueued :
                          NewQueued[i].kind = "Progress" => NewQueued[i].pct \in 0..100
      ]_vars

\* C8 witness: the callback for 512000 of 1000000 bytes emitted Progress(51).
ProgressIsClampedFloorWitness ==
    \E j \in Jobs :
        /\ workers[j].d.status = "downloading"
        /\ workers[j].d.downloaded_bytes = 512000
        /\ workers[j].d.total_bytes = 1000000
        /\ Len(emitted) = 2
        /\ emitted[1].kind = "Progress"
        /\ emitted[1].pct = 51

\* C9: a "downloading" callback that is not cancelled and has neither
\* total_bytes nor total_bytes_estimate emits no Progress event, whatever
\* downloaded_bytes is, and the progress bar keeps its value.
NoProgressWithoutTotal ==
    [][\A j \in Jobs :
          (HookStep(j) /\ ~workers[j]._cancel
             /\ workers'[j].d.status = "downloading"
             /\ workers'[j].d.total_bytes = None
             /\ workers'[j].d.total_bytes_estimate = None)
             => /\ ProgressOf(NewQueued) = <<>>
                /\ Len(NewQueued) = 1
                /\ NewQueued[1].kind = "Status"
                /\ progress' = progress
      ]_vars

\* C9 witness: the callback for 512000 bytes of an unknown total emitted its
\* Status event alone, while the bar shows an earlier callback's percentage.
NoProgressWithoutTotalWitness ==
    \E j \in Jobs :
        /\ workers[j].d.status = "downloading"
        /\ workers[j].d.downloaded_bytes = 512000
        /\ workers[j].d.total_bytes = None
        /\ workers[j].d.total_bytes_estimate = None
        /\ Len(emitted) = 1
        /\ emitted[1].kind = "Status"
        /\ progress = 51

\* C10: run() emits Finished(True, "download complete") only from inside
\* ydl.download, which extract_info precedes, with no error raised; an error
\* raised in run() takes the thread to the except clause, and the thread
\* leaves it only by emitting Finished(False, <the error>) and ending.
TerminalOutcome ==
    [][\A j \in Jobs :
          /\ (\E i \in DOMAIN NewQueued :
                 /\ NewQueued[i].job = j
                 /\ NewQueued[i].kind = "Finished"
                 /\ NewQueued[i].ok)
                => /\ workers[j].pc = "download"
                   /\ workers[j].err = ""
                   /\ workers'[j].pc = "done"
                   /\ Unstamp(NewQueued) = <<FinishedEv(j, TRUE, <<"download complete">>)>>
          /\ (workers[j].err = "" /\ workers'[j].err /= "")
                => /\ workers'[j].pc = "except"
                   /\ workers'[j].err \in {"makedirs failed", "extract failed",
                                           "download failed", "Cancelled by user"}
          /\ (workers[j].pc = "except" /\ workers'[j].pc /= "except")
                => /\ workers'[j].pc = "done"
                   /\ Unstamp(NewQueued) = <<FinishedEv(j, FALSE, <<workers[j].err>>)>>
      ]_vars

\* C10 witness: extract_info raised and the job's Finished(False,
\* "extract failed") is the latest emission.
TerminalOutcomeWitness ==
    \E j \in Jobs :
        /\ workers[j].pc = "done"
        /\ workers[j].err = "extract failed"
        /\ Unstamp(emitted) = <<FinishedEv(j, FALSE, <<"extract failed">>)>>

\* The step handles the event at the head of the main thread's queue.
DeliverStep == queue /= <<>> /\ queue' = Tail(queue)

\* C11 (as claimed): the main thread handles the events of a job in the order
\* of their emission, whichever thread emitted them: when it handles an event
\* of job j (a posted one taken from the queue, or the cancel line, whose slot
\* runs inside the emit), no event that j emitted earlier is still waiting.
FifoAcrossContexts ==
    [][/\ DeliverStep
          => \A i \in DOMAIN queue' :
                queue'[i].job = Head(queue).job => queue'[i].seq > Head(queue).seq
       /\ (cancel_download /\ worker /= 0)
          => \A i \in DOMAIN queue :
                queue[i].job = worker => queue[i].seq > workers[worker].emits + 1
      ]_vars

\* C12: a _hook call that finds the cancel flag set emits no Progress, Status
\* or Log event and raises "Cancelled by user" into the engine, whatever
\* status the engine reports ("downloading", "finished" or another one) and
\* however many callbacks came before.
CancelledHookRaises ==
    [][\A j \in Jobs :
          (HookStep(j) /\ workers[j]._cancel)
             => /\ workers'[j].d.status \in {"downloading", "finished", "error"}
                /\ workers'[j].pc = "except"
                /\ workers'[j].err = "Cancelled by user"
                /\ workers'[j].emits = workers[j].emits
                /\ queue' = queue
                /\ emitted' = emitted
                /\ UNCHANGED <<progress, status_label, log_view>>
      ]_vars

\* C12 witness: the second callback of a job, for the "finished" status, came
\* after a cancel click and raised; the cancel line is still the latest
\* emission.
CancelledHookRaisesWitness ==
    \E j \in Jobs :
        /\ workers[j].hooks = 2
        /\ workers[j].d.status = "finished"
        /\ workers[j].pc = "except"
        /\ workers[j].err = "Cancelled by user"
        /\ Unstamp(emitted) = <<LogEv(j, CancelText)>>

\* The Finished events of job j among the events a step posts.
NewFinished(j) ==
    SelectSeq(NewQueued, LAMBDA e : e.job = j /\ e.kind = "Finished")

\* C13: cancellation is cooperative only.  A cancel click emits no Finished
\* event and leaves the thread of the job where it is; the error "Cancelled
\* by user" arises only in a _hook call that found the flag set, and
\* Finished(False, "Cancelled by user") is emitted only for that error; a
\* cancelled job whose engine calls no hook any more ends, if it ends, with
\* the engine's own outcome.
CancelIsCooperative ==
    [][\A j \in Jobs :
          /\ (cancel_download /\ worker = j)
                => /\ workers'[j].pc = workers[j].pc
                   /\ workers'[j].err = workers[j].err
                   /\ workers'[j].finished = workers[j].finished
                   /\ queue' = queue
                   /\ \A i \in DOMAIN emitted' : emitted'[i].kind /= "Finished"
                   /\ UNCHANGED <<start_btn, cancel_btn, msgbox>>
          /\ (workers[j].err /= "Cancelled by user"
                /\ workers'[j].err = "Cancelled by user")
                => (HookStep(j) /\ workers[j]._cancel)
          /\ (\E i \in DOMAIN NewFinished(j) :
                 NewFinished(j)[i].text = <<"Cancelled by user">>)
                => /\ workers[j].err = "Cancelled by user"
                   /\ workers[j]._cancel
                   /\ workers[j].hooks >= 1
          /\ (workers[j]._cancel /\ workers[j].err /= "Cancelled by user"
                /\ NewFinished(j) /= <<>>)
                => \/ /\ workers[j].pc = "download"
                      /\ Unstamp(NewFinished(j))
                           = <<FinishedEv(j, TRUE, <<"download complete">>)>>
                   \/ /\ workers[j].err \in {"makedirs failed", "extract failed",
                                             "download failed"}
                      /\ Unstamp(NewFinished(j))
                           = <<FinishedEv(j, FALSE, <<workers[j].err>>)>>
      ]_vars

\* C13 witness: a job was cancelled after its one callback, the engine called
\* no hook again and returned: the job ended with Finished(True, "download
\* complete") although its flag is set.
CancelIsCooperativeWitness ==
    \E j \in Jobs :
        /\ workers[j]._cancel
        /\ workers[j].cancels = 1
        /\ workers[j].hooks = 1
        /\ workers[j].pc = "done"
        /\ workers[j].err = ""
        /\ Unstamp(emitted) = <<FinishedEv(j, TRUE, <<"download complete">>)>>

\* C14: the cancel flag of a job only goes from False to True.  It is False
\* when start_download creates the worker, a cancel click sets it, and no
\* step (a _hook call, a step of run(), a slot of the main thread, a further
\* cancel click, a later start) clears it while the worker object exists.
CancelFlagMonotonic ==
    [][\A j \in Jobs :
          /\ (workers[j].pc = "none" /\ workers'[j].pc /= "none")
                => (worker' = j /\ ~workers'[j]._cancel)
          /\ (cancel_download /\ worker = j) => workers'[j]._cancel
          /\ (workers[j]._cancel /\ workers'[j].pc /= "gone") => workers'[j]._cancel
          /\ (~workers[j]._cancel /\ workers'[j]._cancel)
                => (cancel_download /\ worker = j)
      ]_vars

\* C14 witness: the flag of a job is still set after two cancel clicks, the
\* raising callback, the end of run() and the handling of its Finished event.
CancelFlagMonotonicWitness ==
    \E j \in Jobs :
        /\ workers[j]._cancel
        /\ workers[j].cancels = 2
        /\ workers[j].pc = "done"
        /\ workers[j].err = "Cancelled by user"
        /\ queue = <<>>
        /\ start_btn

\* The events of job j still waiting in the queue were all emitted before
\* the emission numbered n.
QueuedBefore(j, n) == \A i \in DOMAIN queue : queue[i].job = j => queue[i].seq < n

\* What a "finished" callback must emit, in order.
FinishedTriple(j) ==
    <<ProgressEv(j, 100), StatusEv(j, <<"downloaded, post-processing">>),
      LogEv(j, <<"file downloaded, waiting for post-processing">>)>>

\* C15: a "finished" callback that is not cancelled emits exactly
\* Progress(100), one Status and one Log, in that order, after every event
\* the job emitted before (those of its "downloading" callbacks included) and
\* before the job's Finished event; Finished(True, "download complete") is
\* emitted after all of them, and the main thread handles the posted events
\* of the job in that same order.
FinishedPhaseOrder ==
    [][\A j \in Jobs :
          /\ (HookStep(j) /\ ~workers[j]._cancel /\ workers'[j].d.status = "finished")
                => /\ Unstamp(NewQueued) = FinishedTriple(j)
                   /\ [i \in 1..3 |-> NewQueued[i].seq]
                        = [i \in 1..3 |-> workers[j].emits + i]
                   /\ QueuedBefore(j, workers[j].emits + 1)
                   /\ workers[j].finished = 0
          /\ (HookStep(j) /\ ~workers[j]._cancel /\ workers'[j].d.status = "downloading")
                => /\ \A i \in DOMAIN NewQueued : NewQueued[i].kind \in {"Progress", "Status"}
                   /\ workers[j].finished = 0
          /\ (NewFinished(j) /= <<>> /\ NewFinished(j)[1].ok)
                => /\ Unstamp(NewQueued) = <<FinishedEv(j, TRUE, <<"download complete">>)>>
                   /\ NewQueued[1].seq = workers[j].emits + 1
                   /\ QueuedBefore(j, workers[j].emits + 1)
          /\ (DeliverStep /\ Head(queue).job = j)
                => \A i \in DOMAIN queue' :
                      queue'[i].job = j => queue'[i].seq > Head(queue).seq
      ]_vars

\* C15 witness: a "downloading" callback, a "finished" callback and the
\* return of ydl.download; the events of the three are the last six of the
\* queue: Progress(33), Status, then the triple, then Finished(True).
FinishedPhaseOrderWitness ==
    \E j \in Jobs :
        /\ workers[j].pc = "done"
        /\ workers[j].hooks = 2
        /\ Len(queue) >= 6
        /\ LET last == Unstamp(SubSeq(queue, Len(queue) - 5, Len(queue)))
           IN  /\ last[1] = ProgressEv(j, 33)
               /\ last[2].kind = "Status"
               /\ SubSeq(last, 3, 5) = FinishedTriple(j)
               /\ last[6] = FinishedEv(j, TRUE, <<"download complete">>)

\* ------------------------------------------------- jobs under fair scheduling
\* A state of Spec: the user has typed " u" and chosen a directory, and no
\* job has been started yet.
FairInit ==
    /\ url_edit = <<" ", "u">>
    /\ cookies_edit = <<>>
    /\ out_dir \in {"good", "ro"}
    /\ start_btn = TRUE
    /\ cancel_btn = FALSE
    /\ choose_dir_btn = TRUE
    /\ choose_cookies_btn = TRUE
    /\ progress = 0
    /\ status_label = <<"ready">>
    /\ log_view = <<>>
    /\ msgbox = ""
    /\ worker = 0
    /\ workers = [j \in Jobs |-> NoWorker]
    /\ queue = <<>>
    /\ emitted = <<>>

\* From there the user only clicks start and cancel and closes boxes.
FairNext ==
    \/ DismissBox
    \/ StartAccepted
    \/ cancel_download
    \/ Deliver
    \/ \E j \in Jobs : Background(j)

\* The scheduling the code relies on: the Qt event loop of the main thread
\* handles every posted signal (it keeps doing so inside a QMessageBox), and
\* a thread that has caught an exception goes on to the except clause.
FairSpec ==
    /\ FairInit
    /\ [][FairNext]_vars
    /\ WF_vars(Deliver)
    /\ \A j \in Jobs : WF_vars(RunExcept(j))

\* FairInit is a state of Spec: as an invariant of Spec this is violated.
FairInitReached == ~FairInit

\* The step handles a Finished event.
FinishedHandled == DeliverStep /\ Head(queue).kind = "Finished"

\* C16: when the main thread handles a job's Finished event, for success and
\* for failure or cancellation alike, the window leaves the busy state: the
\* start button and the two choose buttons are enabled and the cancel button
\* is disabled; so every job whose engine call has returned or raised leads
\* to an enabled start button.
BusyEndsWithFinished ==
    /\ [][FinishedHandled
            => /\ start_btn' /\ choose_dir_btn' /\ choose_cookies_btn'
               /\ ~cancel_btn'
               /\ status_label' = (IF Head(queue).ok THEN <<"done">> ELSE <<"failed">>)
         ]_vars
    /\ \A j \in Jobs : (workers[j].pc \in {"except", "done"}) ~> start_btn

\* C16 witness: the Finished(False, "Cancelled by user") of a job has been
\* handled: the critical box is open over a window that is no longer busy.
BusyEndsWithFinishedWitness ==
    /\ worker /= 0
    /\ workers[worker].pc = "done"
    /\ workers[worker].err = "Cancelled by user"
    /\ queue = <<>>
    /\ msgbox = "download failed"
    /\ status_label = <<"failed">>
    /\ start_btn /\ choose_dir_btn /\ choose_cookies_btn /\ ~cancel_btn

\* Worker j exists before and after the step.
Kept(j) == workers[j].pc \notin {"none", "gone"} /\ workers'[j].pc /= "gone"

\* C17: start_download copies the URL, the directory and the cookies path
\* into the job's DownloadOptions, and no later step changes them while the
\* worker exists: not a _hook call, not a step of run(), not a cancel click,
\* not typing into the URL or the cookies field or choosing a directory or a
\* cookies file.  A step of the main thread changes nothing of an existing
\* worker but its cancel flag (and the counts of cancel() and emit calls).
RequestFixedAtStart ==
    [][\A j \in Jobs :
          /\ (workers[j].pc = "none" /\ workers'[j].pc /= "none")
                => workers'[j].opts
                     = DownloadOptions(strip(url_edit), out_dir, strip(cookies_edit))
          /\ Kept(j) => workers'[j].opts = workers[j].opts
          /\ (EditObserver /\ Kept(j))
                => [workers'[j] EXCEPT !._cancel = FALSE, !.cancels = 0, !.emits = 0]
                     = [workers[j] EXCEPT !._cancel = FALSE, !.cancels = 0, !.emits = 0]
      ]_vars

\* C17 witness: a cancelled job is inside ydl.download, after a callback, with
\* the URL "u" and no cookies, while the URL field now holds " " and the
\* cookies field " k".
RequestFixedAtStartWitness ==
    \E j \in Jobs :
        /\ workers[j].pc = "download"
        /\ workers[j].hooks >= 1
        /\ workers[j]._cancel
        /\ workers[j].opts = DownloadOptions(<<"u">>, "good", <<>>)
        /\ url_edit = <<" ">>
        /\ cookies_edit = <<" ", "k">>

\* The Status events among evs.
StatusOf(evs) == SelectSeq(evs, LAMBDA e : e.kind = "Status")

\* C18: a "downloading" callback that is not cancelled returns normally and
\* emits exactly one Status event, last, whether or not the total size, the
\* downloaded bytes, the speed and the ETA are known; it emits nothing else
\* but at most one Progress event, which is left out exactly when the total
\* size or the downloaded bytes are unknown.
DownloadingAlwaysStatus ==
    [][\A j \in Jobs :
          (HookStep(j) /\ ~workers[j]._cancel /\ workers'[j].d.status = "downloading")
             => LET d == workers'[j].d
                IN  /\ workers'[j].pc = "download"
                    /\ workers'[j].err = ""
                    /\ Len(StatusOf(NewQueued)) = 1
                    /\ NewQueued[Len(NewQueued)].kind = "Status"
                    /\ Head(NewQueued[Len(NewQueued)].text) = "downloading: "
                    /\ Len(NewQueued) = 1 + Len(ProgressOf(NewQueued))
                    /\ Len(ProgressOf(NewQueued))
                         = (IF KnownTotal(d) = None \/ d.downloaded_bytes = None
                            THEN 0 ELSE 1)
      ]_vars

\* C18 witness: the callback for a dict with no size, no downloaded bytes, no
\* speed and no ETA returned, and its Status event is the latest emission.
DownloadingAlwaysStatusWitness ==
    \E j \in Jobs :
        /\ workers[j].pc = "download"
        /\ workers[j].hooks >= 1
        /\ workers[j].d = HookDict("downloading", None, None, None, None, None,
                                   <<"d", "/", "a">>)
        /\ Len(emitted) = 1
        /\ emitted[1].kind = "Status"
        /\ emitted[1].text = <<"downloading: ", "a">>

\* C19: a cancel does not reach another job.  start_download gives every job
\* a new worker whose flag is False and makes it MainWindow.worker; a cancel
\* click acts on the job started last and on no other worker; a flag is set
\* only by a cancel click on its own job, so a callback of a job that was
\* never cancelled itself returns normally, whatever happened to the jobs
\* before it.
NoCancelLeak ==
    [][\A j \in Jobs :
          /\ (workers[j].pc = "none" /\ workers'[j].pc /= "none")
                => /\ worker' = j
                   /\ workers'[j] = YtDlpWorker(workers'[j].opts)
                   /\ ~workers'[j]._cancel
          /\ cancel_download
                => /\ \A k \in Jobs : workers[k].pc /= "none" => k <= worker
                   /\ workers'[worker]._cancel
                   /\ \A k \in Jobs \ {worker} : workers'[k] = workers[k]
          /\ workers[j]._cancel => workers[j].cancels >= 1
          /\ (HookStep(j) /\ workers[j].cancels = 0)
                => /\ workers'[j].pc = "download"
                   /\ workers'[j].err = ""
                   /\ Unstamp(NewQueued) = HookEvents(j, workers'[j].d)
      ]_vars

\* C19 witness: after the cancelled job 1, job 2 has been started and never
\* cancelled; its second callback returned and emitted Progress(33) and a
\* Status event.
NoCancelLeakWitness ==
    /\ workers[1].pc = "gone"
    /\ worker = 2
    /\ workers[2].pc = "download"
    /\ workers[2].hooks = 2
    /\ workers[2].cancels = 0
    /\ ~workers[2]._cancel
    /\ Len(emitted) = 2
    /\ Unstamp(emitted)[1] = ProgressEv(2, 33)
    /\ emitted[2].kind = "Status"

====
